---- MODULE Spec2Model ----
(***************************************************************************)
(* Model of the Bedrock prompt-caching benchmark scripts:                  *)
(*   01_baseline_no_cache.py   (run_baseline, ask_question_baseline)       *)
(*   02_with_prompt_caching.py (run_cached, ask_question_cached)           *)
(*   run_all_benchmarks.py     (main, run_benchmark)                       *)
(*                                                                         *)
(* Units.  Token counts are integers.  Latencies are integer milliseconds. *)
(* Rates are in 1e-4 dollars per million tokens, so tokens * rate is a     *)
(* cost in 1e-10 dollars; round(cost, 6) is a number of micro-dollars,     *)
(* round(latency, 2) a number of centiseconds, round(monthly, 2) cents.    *)
(* Percentages are in tenths of a percent (the scripts print one decimal); *)
(* the unrounded monthly saving of run_cached is in micro-dollars.  The    *)
(* factors 1000 * 30 and * 100 are folded into the divisors so that every  *)
(* intermediate value stays within 32 bits.                                *)
(***************************************************************************)
EXTENDS Integers, Sequences, FiniteSets, TLC

\* Longest conversation script (QUESTIONS) explored.
MaxQuestions == 2

\* Most backend responses, over one execution, that differ from the ordinary one
\* (PLAIN below): errors, malformed bodies, cache counters, tiny usage.
MaxOdd == 2

None == "None"

----------------------------------------------------------------------------
\* Static configuration

PRO == "amazon.nova-pro-v1:0"
LITE == "amazon.nova-lite-v1:0"
MICRO == "amazon.nova-micro-v1:0"
UNKNOWN == "other.model-v1:0"

\* PRICING of run_all_benchmarks.py and of run_cached (the two tables are equal)
PRICING ==
    [m \in {PRO, LITE, MICRO} |->
        CASE m = PRO   -> [input |-> 8000, output |-> 32000, cache_read |-> 800, cache_write |-> 10000]
          [] m = LITE  -> [input |-> 600,  output |-> 2400,  cache_read |-> 60,  cache_write |-> 750]
          [] m = MICRO -> [input |-> 350,  output |-> 1400,  cache_read |-> 35,  cache_write |-> 440]]

\* PRICING of run_baseline: (input_price, output_price) pairs
PRICING_BASELINE ==
    [m \in {PRO, LITE, MICRO} |->
        CASE m = PRO   -> <<8000, 32000>>
          [] m = LITE  -> <<600, 2400>>
          [] m = MICRO -> <<350, 1400>>]

\* dict.get(key, default)
Get(d, k, default) == IF k \in DOMAIN d THEN d[k] ELSE default

\* p = PRICING.get(model_id, PRICING["amazon.nova-pro-v1:0"])
RatesFor(model_id) == Get(PRICING, model_id, PRICING[PRO])

\* input_price, output_price = PRICING.get(MODEL_ID, (3.0, 15.0))
RatesForBaseline(model_id) == Get(PRICING_BASELINE, model_id, <<30000, 150000>>)

\* models list of main, as (model_id, name) pairs
models == << <<PRO, "Nova Pro">>, <<LITE, "Nova Lite">>, <<MICRO, "Nova Micro">> >>

\* key = f"{name}_{mode}"
Key(name, use_caching) == <<name, IF use_caching THEN "cached" ELSE "baseline">>

\* The (model, caching) configurations in the order main's nested loops visit them
Configs ==
    [c \in 1..(2 * Len(models)) |->
        [model_id |-> models[(c + 1) \div 2][1],
         name |-> models[(c + 1) \div 2][2],
         use_caching |-> (c % 2 = 0)]]

----------------------------------------------------------------------------
\* Arithmetic

\* Python round(): num/den rounded to the nearest integer, ties to even (den > 0)
Round(num, den) ==
    LET q == num \div den
        r == num % den
    IN  IF 2 * r < den THEN q
        ELSE IF 2 * r > den THEN q + 1
        ELSE IF q % 2 = 0 THEN q ELSE q + 1

----------------------------------------------------------------------------
\* The backend (bedrock.converse): what one call can return

\* QUESTIONS (shortened texts), of which a script is a prefix
AllQuestions ==
    << "What are the main features?", "How do I configure the API?",
       "What's the pricing?", "My API is returning 429", "How do I migrate?" >>

Script(n) == SubSeq(AllQuestions, 1, IF n < Len(AllQuestions) THEN n ELSE Len(AllQuestions))

FULL_SYSTEM == "SYSTEM_PROMPT + PRODUCT_DOCS"

U_PLAIN == [inputTokens |-> 3000, outputTokens |-> 200]
U_WRITE == [inputTokens |-> 0, outputTokens |-> 200,
            cacheReadInputTokens |-> 0, cacheWriteInputTokens |-> 3000]
U_TINY  == [inputTokens |-> 0, outputTokens |-> 0,
            cacheReadInputTokens |-> 1, cacheWriteInputTokens |-> 0]
U_NOINPUT == [outputTokens |-> 200]

Output(content) == [message |-> [role |-> "assistant", content |-> content]]

\* The ordinary response: a text answer, no cache counters, 1.5 s
PLAIN == [raises |-> FALSE, elapsed |-> 1500,
          body |-> [usage |-> U_PLAIN, output |-> Output(<<[text |-> "answer"]>>)]]

OddResponses ==
    { \* converse raises (throttling, access denied, validation)
      [raises |-> TRUE, elapsed |-> 1500],
      \* no "output" key
      [raises |-> FALSE, elapsed |-> 1500, body |-> [usage |-> U_PLAIN]],
      \* "output" without "message"
      [raises |-> FALSE, elapsed |-> 1500,
       body |-> [usage |-> U_PLAIN, output |-> [stopReason |-> "end_turn"]]],
      \* empty content list
      [raises |-> FALSE, elapsed |-> 1500,
       body |-> [usage |-> U_PLAIN, output |-> Output(<<>>)]],
      \* usage without inputTokens
      [raises |-> FALSE, elapsed |-> 1500,
       body |-> [usage |-> U_NOINPUT, output |-> Output(<<[text |-> "answer"]>>)]],
      \* cache write reported
      [raises |-> FALSE, elapsed |-> 1500,
       body |-> [usage |-> U_WRITE, output |-> Output(<<[text |-> "cached answer"]>>)]],
      \* a very small, very fast turn with a cache read
      [raises |-> FALSE, elapsed |-> 1,
       body |-> [usage |-> U_TINY, output |-> Output(<<[text |-> "ok"]>>)]] }

Responses == {PLAIN} \cup OddResponses

\* response["output"]["message"]["content"] can be evaluated
HasContent(body) ==
    /\ "output" \in DOMAIN body
    /\ "message" \in DOMAIN body.output
    /\ "content" \in DOMAIN body.output.message

\* response["output"]["message"]["content"][0]["text"] can be evaluated
HasText(body) ==
    /\ HasContent(body)
    /\ Len(body.output.message.content) > 0
    /\ "text" \in DOMAIN body.output.message.content[1]

\* The exception that evaluating ...["content"][0]["text"] raises, if any
TextError(body) ==
    IF ~HasContent(body) THEN "KeyError"
    ELSE IF Len(body.output.message.content) = 0 THEN "IndexError"
    ELSE IF "text" \notin DOMAIN body.output.message.content[1] THEN "KeyError"
    ELSE None

\* usage["inputTokens"] and usage["outputTokens"] can be evaluated
HasCounters(usage) == "inputTokens" \in DOMAIN usage /\ "outputTokens" \in DOMAIN usage

UserMessage(question) == [role |-> "user", content |-> <<[text |-> question]>>]

\* A history entry that drops the returned content
AssistantMessage_Dropped(body) == [role |-> "assistant", content |-> <<>>]

AssistantMessage(body) == [role |-> "assistant", content |-> body.output.message.content]

\* A system argument that carries the cache directive whatever the mode
SystemBlock_AlwaysCache(use_caching) ==
    << [text |-> FULL_SYSTEM], [cachePoint |-> [type |-> "default"]] >>

\* system argument of converse
SystemBlock(use_caching) ==
    IF use_caching
    THEN << [text |-> FULL_SYSTEM], [cachePoint |-> [type |-> "default"]] >>
    ELSE << [text |-> FULL_SYSTEM] >>

----------------------------------------------------------------------------
\* Cost formulas (results in 1e-10 dollars)

\* run_benchmark: the cost of a run from its totals, by caching mode
BenchmarkCost(use_caching, t_input, t_output, t_cache_read, t_cache_write, p) ==
    IF use_caching
    THEN t_input * p.input + t_cache_read * p.cache_read
         + t_cache_write * p.cache_write + t_output * p.output
    ELSE t_input * p.input + t_output * p.output

\* run_cached: input_cost + cache_read_cost + cache_write_cost + output_cost
CachedCost(t_input, t_output, t_cache_read, t_cache_write, pricing) ==
    t_input * pricing.input + t_cache_read * pricing.cache_read
    + t_cache_write * pricing.cache_write + t_output * pricing.output

\* run_baseline: input_cost + output_cost
BaselineCost(t_input, t_output, prices) == t_input * prices[1] + t_output * prices[2]

----------------------------------------------------------------------------
\* State

VARIABLES
    prog,               \* the script that is running: "baseline", "cached", "all"
    MODEL_ID,           \* MODEL_ID of the running single-model script
    QUESTIONS,          \* the conversation script
    pc,                 \* position in the running script
    error,              \* the uncaught exception that ended the script, or None
    odd,                \* unusual backend responses so far
    cfg,                \* main: index in Configs of the configuration being run
    i,                  \* loop index: turns completed in the current run
    history, turns,     \* the run's conversation history and per-turn list
    total_input, total_output, total_cache_read, total_cache_write,
    total_latency,      \* the run's totals
    total_cost,         \* single-model scripts: the computed session cost
    request,            \* the run's last converse request, as <<request>>, or <<>>
    response,           \* the run's last converse response, as <<response>>, or <<>>
    all_results,        \* main: key -> result
    skipped,            \* main: the "SKIPPED" lines printed
    table,              \* main: rows of the comparison table printed
    imp,                \* main: index in models of the improvement being computed
    reports,            \* the baseline-vs-cached comparisons printed
    baseline_file,      \* results_01_baseline.json, as <<json>>, or <<>>
    cached_file,        \* results_02_cached.json, as <<json>>, or <<>>
    full_file           \* results_full_comparison.json, as <<json>>, or <<>>

runVars == << i, history, turns, total_input, total_output, total_cache_read,
              total_cache_write, total_latency, response >>
mainVars == << cfg, all_results, skipped, table, imp >>
fileVars == << baseline_file, cached_file, full_file >>
vars == << prog, MODEL_ID, QUESTIONS, pc, error, odd, runVars, total_cost, request,
           mainVars, reports, fileVars >>

\* MODEL_ID values tried in the single-model scripts
ScriptModelIds == {PRO, LITE, UNKNOWN}

NoResults == [k \in {} |-> None]

Init ==
    /\ prog \in {"baseline", "cached", "all"}
    /\ MODEL_ID \in IF prog = "all" THEN {None} ELSE ScriptModelIds
    /\ QUESTIONS \in {Script(n) : n \in 0..MaxQuestions}
    /\ pc = "loop"
    /\ error = None
    /\ odd = 0
    /\ cfg = IF prog = "all" THEN 1 ELSE 0
    /\ i = 0
    /\ history = <<>>
    /\ turns = <<>>
    /\ total_input = 0
    /\ total_output = 0
    /\ total_cache_read = 0
    /\ total_cache_write = 0
    /\ total_latency = 0
    /\ total_cost = 0
    /\ request = <<>>
    /\ response = <<>>
    /\ all_results = NoResults
    /\ skipped = {}
    /\ table = {}
    /\ imp = 0
    /\ reports = <<>>
    /\ baseline_file = <<>>
    /\ cached_file = <<>>
    /\ full_file = <<>>

\* The locals of a run as its function sets them before the loop
ResetRun ==
    /\ i' = 0
    /\ history' = <<>>
    /\ turns' = <<>>
    /\ total_input' = 0
    /\ total_output' = 0
    /\ total_cache_read' = 0
    /\ total_cache_write' = 0
    /\ total_latency' = 0
    /\ request' = <<>>
    /\ response' = <<>>

\* An uncaught exception ends the script
Crash(exc) ==
    /\ pc' = "crashed"
    /\ error' = exc

\* response = bedrock.converse(...) returned r, and an exception follows: the
\* other locals of the run stay as they are
Received(r) ==
    /\ response' = << r >>
    /\ UNCHANGED << i, history, turns, total_input, total_output, total_cache_read,
                    total_cache_write, total_latency >>

\* The backend's answer to the request in flight
Answers == {r \in Responses : r = PLAIN \/ odd < MaxOdd}
Count(r) == odd' = IF r = PLAIN THEN odd ELSE odd + 1

----------------------------------------------------------------------------
\* 01_baseline_no_cache.py

\* ask_question_baseline up to the converse call
AskQuestionBaseline ==
    /\ prog = "baseline" /\ pc = "loop" /\ i < Len(QUESTIONS)
    /\ request' = << [modelId |-> MODEL_ID,
                      system |-> << [text |-> FULL_SYSTEM] >>,
                      messages |-> Append(history, UserMessage(QUESTIONS[i + 1]))] >>
    /\ pc' = "await"
    /\ UNCHANGED << prog, MODEL_ID, QUESTIONS, error, odd, runVars, total_cost,
                    mainVars, reports, fileVars >>

\* The rest of ask_question_baseline and the loop body of run_baseline
BaselineTurn ==
    /\ prog = "baseline" /\ pc = "await"
    /\ \E r \in Answers :
        /\ Count(r)
        /\ IF r.raises
           THEN Crash("BackendError") /\ UNCHANGED runVars
           ELSE IF TextError(r.body) # None
           THEN Crash(TextError(r.body)) /\ Received(r)
           ELSE IF ~HasCounters(r.body.usage)
           THEN Crash("KeyError") /\ Received(r)
           ELSE /\ total_input' = total_input + r.body.usage.inputTokens
                /\ total_output' = total_output + r.body.usage.outputTokens
                /\ total_latency' = total_latency + r.elapsed
                /\ turns' = Append(turns,
                        [turn |-> i + 1, question |-> QUESTIONS[i + 1],
                         latency_s |-> r.elapsed,
                         input_tokens |-> r.body.usage.inputTokens,
                         output_tokens |-> r.body.usage.outputTokens])
                /\ history' = history \o << UserMessage(QUESTIONS[i + 1]),
                                            AssistantMessage(r.body) >>
                /\ i' = i + 1
                /\ response' = << r >>
                /\ pc' = "loop"
                /\ UNCHANGED << error, total_cache_read, total_cache_write >>
    /\ UNCHANGED << prog, MODEL_ID, QUESTIONS, total_cost, request, mainVars, reports,
                    fileVars >>

\* run_baseline after the loop: summary, cost estimate, projection
BaselineSummary ==
    /\ prog = "baseline" /\ pc = "loop" /\ i = Len(QUESTIONS)
    /\ IF Len(QUESTIONS) = 0
       THEN Crash("ZeroDivisionError") /\ UNCHANGED total_cost
       ELSE /\ total_cost' = BaselineCost(total_input, total_output,
                                          RatesForBaseline(MODEL_ID))
            /\ pc' = "save"
            /\ UNCHANGED error
    /\ UNCHANGED << prog, MODEL_ID, QUESTIONS, odd, runVars, request, mainVars, reports,
                    fileVars >>

\* run_baseline: the results written to results_01_baseline.json
BaselineSave ==
    /\ prog = "baseline" /\ pc = "save"
    /\ baseline_file' =
        << [benchmark |-> "baseline_no_cache",
            model |-> MODEL_ID,
            turns |-> turns,
            totals |-> [input_tokens |-> total_input,
                        output_tokens |-> total_output,
                        latency_s |-> Round(total_latency, 10),
                        cost_usd |-> Round(total_cost, 10000)],
            daily_projection |-> [conversations |-> 1000,
                                  daily_cost_usd |-> Round(total_cost, 100000),
                                  monthly_cost_usd |-> Round(total_cost * 3, 10000)]] >>
    /\ pc' = "done"
    /\ UNCHANGED << prog, MODEL_ID, QUESTIONS, error, odd, runVars, total_cost, request,
                    mainVars, reports, cached_file, full_file >>

----------------------------------------------------------------------------
\* 02_with_prompt_caching.py

\* ask_question_cached up to the converse call
AskQuestionCached ==
    /\ prog = "cached" /\ pc = "loop" /\ i < Len(QUESTIONS)
    /\ request' = << [modelId |-> MODEL_ID,
                      system |-> << [text |-> FULL_SYSTEM],
                                    [cachePoint |-> [type |-> "default"]] >>,
                      messages |-> Append(history, UserMessage(QUESTIONS[i + 1]))] >>
    /\ pc' = "await"
    /\ UNCHANGED << prog, MODEL_ID, QUESTIONS, error, odd, runVars, total_cost,
                    mainVars, reports, fileVars >>

\* The rest of ask_question_cached and the loop body of run_cached
CachedTurn ==
    /\ prog = "cached" /\ pc = "await"
    /\ \E r \in Answers :
        /\ Count(r)
        /\ IF r.raises
           THEN Crash("BackendError") /\ UNCHANGED runVars
           ELSE IF TextError(r.body) # None
           THEN Crash(TextError(r.body)) /\ Received(r)
           ELSE IF ~HasCounters(r.body.usage)
           THEN Crash("KeyError") /\ Received(r)
           ELSE LET usage == r.body.usage
                    cache_read_tokens == Get(usage, "cacheReadInputTokens", 0)
                    cache_write_tokens == Get(usage, "cacheWriteInputTokens", 0)
                IN  /\ total_input' = total_input + usage.inputTokens
                    /\ total_output' = total_output + usage.outputTokens
                    /\ total_cache_read' = total_cache_read + cache_read_tokens
                    /\ total_cache_write' = total_cache_write + cache_write_tokens
                    /\ total_latency' = total_latency + r.elapsed
                    /\ turns' = Append(turns,
                            [turn |-> i + 1, question |-> QUESTIONS[i + 1],
                             latency_s |-> r.elapsed,
                             input_tokens |-> usage.inputTokens,
                             output_tokens |-> usage.outputTokens,
                             cache_read_tokens |-> cache_read_tokens,
                             cache_write_tokens |-> cache_write_tokens])
                    /\ history' = history \o << UserMessage(QUESTIONS[i + 1]),
                                                AssistantMessage(r.body) >>
                    /\ i' = i + 1
                    /\ response' = << r >>
                    /\ pc' = "loop"
                    /\ UNCHANGED error
    /\ UNCHANGED << prog, MODEL_ID, QUESTIONS, total_cost, request, mainVars, reports,
                    fileVars >>

\* run_cached after the loop: summary, cost estimate, projection
CachedSummary ==
    /\ prog = "cached" /\ pc = "loop" /\ i = Len(QUESTIONS)
    /\ IF Len(QUESTIONS) = 0
       THEN Crash("ZeroDivisionError") /\ UNCHANGED total_cost
       ELSE /\ total_cost' = CachedCost(total_input, total_output, total_cache_read,
                                        total_cache_write, RatesFor(MODEL_ID))
            /\ pc' = "compare"
            /\ UNCHANGED error
    /\ UNCHANGED << prog, MODEL_ID, QUESTIONS, odd, runVars, request, mainVars, reports,
                    fileVars >>

\* run_cached: the comparison with the loaded baseline file, when there is one
CachedCompare ==
    /\ prog = "cached" /\ pc = "compare"
    /\ IF baseline_file = <<>>
       THEN pc' = "save" /\ UNCHANGED << error, reports >>
       ELSE LET bl == baseline_file[1].totals
                bl_daily == baseline_file[1].daily_projection
            IN  IF bl.latency_s = 0 \/ bl.cost_usd = 0
                THEN Crash("ZeroDivisionError") /\ UNCHANGED reports
                ELSE /\ reports' = Append(reports,
                        [lat_reduction |->
                            Round((bl.latency_s * 10 - total_latency) * 1000,
                                  bl.latency_s * 10),
                         cost_reduction |->
                            Round(bl.cost_usd * 10000 - total_cost, bl.cost_usd * 10),
                         monthly_savings |->
                            bl_daily.monthly_cost_usd * 10000 - total_cost * 3])
                     /\ pc' = "save"
                     /\ UNCHANGED error
    /\ UNCHANGED << prog, MODEL_ID, QUESTIONS, odd, runVars, total_cost, request,
                    mainVars, fileVars >>

\* run_cached: the results written to results_02_cached.json
CachedSave ==
    /\ prog = "cached" /\ pc = "save"
    /\ cached_file' =
        << [benchmark |-> "with_prompt_caching",
            model |-> MODEL_ID,
            turns |-> turns,
            totals |-> [input_tokens |-> total_input,
                        output_tokens |-> total_output,
                        cache_read_tokens |-> total_cache_read,
                        cache_write_tokens |-> total_cache_write,
                        latency_s |-> Round(total_latency, 10),
                        cost_usd |-> Round(total_cost, 10000)],
            daily_projection |-> [conversations |-> 1000,
                                  daily_cost_usd |-> Round(total_cost, 100000),
                                  monthly_cost_usd |-> Round(total_cost * 3, 10000)]] >>
    /\ pc' = "done"
    /\ UNCHANGED << prog, MODEL_ID, QUESTIONS, error, odd, runVars, total_cost, request,
                    mainVars, reports, baseline_file, full_file >>

\* The user runs 02_with_prompt_caching.py after 01_baseline_no_cache.py has written
\* its results; each script has its own MODEL_ID
StartCached ==
    /\ prog = "baseline" /\ pc = "done"
    /\ prog' = "cached"
    /\ MODEL_ID' \in ScriptModelIds
    /\ pc' = "loop"
    /\ ResetRun
    /\ total_cost' = 0
    /\ UNCHANGED << QUESTIONS, error, odd, mainVars, reports, fileVars >>

----------------------------------------------------------------------------
\* run_all_benchmarks.py

CurrentKey == Key(Configs[cfg].name, Configs[cfg].use_caching)

\* main's loops move on to the next configuration, or to the comparison table
NextConfig ==
    /\ cfg' = cfg + 1
    /\ pc' = IF cfg = Len(Configs) THEN "table" ELSE "loop"
    /\ ResetRun

\* run_benchmark: the result dict built after the loop
BenchmarkResult(model_id, use_caching) ==
    LET cost == BenchmarkCost(use_caching, total_input, total_output,
                              total_cache_read, total_cache_write, RatesFor(model_id))
    IN  [model |-> model_id,
         caching |-> use_caching,
         turns |-> turns,
         total_input |-> total_input,
         total_output |-> total_output,
         total_cache_read |-> total_cache_read,
         total_cache_write |-> total_cache_write,
         total_latency |-> Round(total_latency, 10),
         avg_latency |-> Round(total_latency, 10 * Len(QUESTIONS)),
         cost |-> Round(cost, 10000),
         monthly_cost |-> Round(cost * 3, 10000)]

\* An except clause that keeps what the failed run had accumulated
Skip_KeepPartial(exc) ==
    /\ skipped' = skipped \cup {[config |-> CurrentKey, reason |-> exc, at_turn |-> i + 1]}
    /\ all_results' =
        [k \in DOMAIN all_results \cup {CurrentKey} |->
            IF k = CurrentKey
            THEN [model |-> Configs[cfg].model_id,
                  caching |-> Configs[cfg].use_caching,
                  turns |-> turns,
                  total_input |-> total_input,
                  total_output |-> total_output,
                  total_cache_read |-> total_cache_read,
                  total_cache_write |-> total_cache_write,
                  total_latency |-> Round(total_latency, 10),
                  avg_latency |-> 0,
                  cost |-> 0,
                  monthly_cost |-> 0]
            ELSE all_results[k]]
    /\ NextConfig
    /\ UNCHANGED error

\* main's except clause: the failure is printed and the batch goes on.  at_turn
\* (the turn being run when the exception was raised; len(QUESTIONS) + 1 for one
\* raised after the loop) is kept for inspection, the script prints only the reason
Skip(exc) ==
    /\ skipped' = skipped \cup {[config |-> CurrentKey, reason |-> exc, at_turn |-> i + 1]}
    /\ NextConfig
    /\ UNCHANGED << all_results, error >>

\* run_benchmark: the loop body up to the converse call
BenchmarkConverse ==
    /\ prog = "all" /\ pc = "loop" /\ i < Len(QUESTIONS)
    /\ request' = << [modelId |-> Configs[cfg].model_id,
                      system |-> SystemBlock(Configs[cfg].use_caching),
                      messages |-> Append(history, UserMessage(QUESTIONS[i + 1]))] >>
    /\ pc' = "await"
    /\ UNCHANGED << prog, MODEL_ID, QUESTIONS, error, odd, runVars, total_cost,
                    mainVars, reports, fileVars >>

\* A loop body that assigns the turn's counters to the totals instead of adding them
BenchmarkTurn_Overwrite ==
    /\ prog = "all" /\ pc = "await"
    /\ \E r \in Answers :
        /\ Count(r)
        /\ IF r.raises
           THEN Skip("BackendError")
           ELSE IF ~HasCounters(r.body.usage)
           THEN Skip("KeyError")
           ELSE IF ~HasContent(r.body)
           THEN Skip("KeyError")
           ELSE LET usage == r.body.usage
                    cr == Get(usage, "cacheReadInputTokens", 0)
                    cw == Get(usage, "cacheWriteInputTokens", 0)
                IN  /\ turns' = Append(turns,
                            [turn |-> i + 1,
                             latency_s |-> r.elapsed,
                             input_tokens |-> usage.inputTokens,
                             output_tokens |-> usage.outputTokens,
                             cache_read |-> cr,
                             cache_write |-> cw])
                    /\ total_input' = usage.inputTokens
                    /\ total_output' = usage.outputTokens
                    /\ total_cache_read' = cr
                    /\ total_cache_write' = cw
                    /\ total_latency' = total_latency + r.elapsed
                    /\ history' = history \o << UserMessage(QUESTIONS[i + 1]),
                                                AssistantMessage(r.body) >>
                    /\ i' = i + 1
                    /\ response' = << r >>
                    /\ pc' = "loop"
                    /\ UNCHANGED << request, cfg, all_results, skipped, error >>
    /\ UNCHANGED << prog, MODEL_ID, QUESTIONS, total_cost, table, imp, reports, fileVars >>

\* run_benchmark: the loop body after the converse call
BenchmarkTurn ==
    /\ prog = "all" /\ pc = "await"
    /\ \E r \in Answers :
        /\ Count(r)
        /\ IF r.raises
           THEN Skip("BackendError")
           ELSE IF ~HasCounters(r.body.usage)
           THEN Skip("KeyError")
           ELSE IF ~HasContent(r.body)
           THEN Skip("KeyError")
           ELSE LET usage == r.body.usage
                    cr == Get(usage, "cacheReadInputTokens", 0)
                    cw == Get(usage, "cacheWriteInputTokens", 0)
                IN  /\ turns' = Append(turns,
                            [turn |-> i + 1,
                             latency_s |-> r.elapsed,
                             input_tokens |-> usage.inputTokens,
                             output_tokens |-> usage.outputTokens,
                             cache_read |-> cr,
                             cache_write |-> cw])
                    /\ total_input' = total_input + usage.inputTokens
                    /\ total_output' = total_output + usage.outputTokens
                    /\ total_cache_read' = total_cache_read + cr
                    /\ total_cache_write' = total_cache_write + cw
                    /\ total_latency' = total_latency + r.elapsed
                    /\ history' = history \o << UserMessage(QUESTIONS[i + 1]),
                                                AssistantMessage(r.body) >>
                    /\ i' = i + 1
                    /\ response' = << r >>
                    /\ pc' = "loop"
                    /\ UNCHANGED << request, cfg, all_results, skipped, error >>
    /\ UNCHANGED << prog, MODEL_ID, QUESTIONS, total_cost, table, imp, reports, fileVars >>

\* run_benchmark returns (or divides by len(QUESTIONS) = 0) and main stores the result
BenchmarkReturn ==
    /\ prog = "all" /\ pc = "loop" /\ i = Len(QUESTIONS) /\ cfg <= Len(Configs)
    /\ IF Len(QUESTIONS) = 0
       THEN Skip("ZeroDivisionError")
       ELSE /\ all_results' =
                [k \in DOMAIN all_results \cup {CurrentKey} |->
                    IF k = CurrentKey
                    THEN BenchmarkResult(Configs[cfg].model_id, Configs[cfg].use_caching)
                    ELSE all_results[k]]
            /\ NextConfig
            /\ UNCHANGED << skipped, error >>
    /\ UNCHANGED << prog, MODEL_ID, QUESTIONS, odd, total_cost, table, imp, reports,
                    fileVars >>

\* main: the comparison table, one row per entry of all_results
PrintTable ==
    /\ prog = "all" /\ pc = "table"
    /\ table' = { [config |-> k,
                   total_latency |-> all_results[k].total_latency,
                   total_input |-> all_results[k].total_input,
                   total_cache_read |-> all_results[k].total_cache_read,
                   cost |-> all_results[k].cost,
                   monthly_cost |-> all_results[k].monthly_cost] : k \in DOMAIN all_results }
    /\ imp' = 1
    /\ pc' = "improve"
    /\ UNCHANGED << prog, MODEL_ID, QUESTIONS, error, odd, runVars, total_cost, request,
                    cfg, all_results, skipped, reports, fileVars >>

\* main: one iteration of the "improvements from caching" loop
Improvement ==
    /\ prog = "all" /\ pc = "improve"
    /\ LET name == models[imp][2]
       IN  IF Key(name, FALSE) \notin DOMAIN all_results
              \/ Key(name, TRUE) \notin DOMAIN all_results
           THEN Crash("KeyError") /\ UNCHANGED << reports, imp >>
           ELSE LET bl == all_results[Key(name, FALSE)]
                    ca == all_results[Key(name, TRUE)]
                IN  IF bl.total_latency = 0 \/ bl.cost = 0
                    THEN Crash("ZeroDivisionError") /\ UNCHANGED << reports, imp >>
                    ELSE /\ reports' = Append(reports,
                              [name |-> name,
                               lat_imp |-> Round((bl.total_latency - ca.total_latency) * 1000,
                                                 bl.total_latency),
                               cost_imp |-> Round((bl.cost - ca.cost) * 1000, bl.cost),
                               monthly_save |-> bl.monthly_cost - ca.monthly_cost])
                         /\ imp' = imp + 1
                         /\ pc' = IF imp = Len(models) THEN "save" ELSE "improve"
                         /\ UNCHANGED error
    /\ UNCHANGED << prog, MODEL_ID, QUESTIONS, odd, runVars, total_cost, request,
                    cfg, all_results, skipped, table, fileVars >>

\* main: all_results written to results_full_comparison.json
SaveAll ==
    /\ prog = "all" /\ pc = "save"
    /\ full_file' = << all_results >>
    /\ pc' = "done"
    /\ UNCHANGED << prog, MODEL_ID, QUESTIONS, error, odd, runVars, total_cost, request,
                    mainVars, reports, baseline_file, cached_file >>

----------------------------------------------------------------------------

Next ==
    \/ AskQuestionBaseline
    \/ BaselineTurn
    \/ BaselineSummary
    \/ BaselineSave
    \/ StartCached
    \/ AskQuestionCached
    \/ CachedTurn
    \/ CachedSummary
    \/ CachedCompare
    \/ CachedSave
    \/ BenchmarkConverse
    \/ BenchmarkTurn
    \/ BenchmarkReturn
    \/ PrintTable
    \/ Improvement
    \/ SaveAll

Spec == Init /\ [][Next]_vars

----------------------------------------------------------------------------
\* Properties

RECURSIVE SumField(_, _)
\* The sum of field f over the entries of a per-turn list
SumField(seq, f) ==
    IF Len(seq) = 0 THEN 0 ELSE seq[Len(seq)][f] + SumField(SubSeq(seq, 1, Len(seq) - 1), f)

\* main has ended: it returned, or an exception left it
MainEnded == prog = "all" /\ pc \in {"done", "crashed"}

\* The mode of the run that is in progress
CachingOn ==
    \/ prog = "cached"
    \/ prog = "all" /\ cfg \in DOMAIN Configs /\ Configs[cfg].use_caching

HasCachePoint(system) == \E b \in 1..Len(system) : "cachePoint" \in DOMAIN system[b]

\* C1: failure isolation in main.  Whenever main has ended after some configuration
\* failed (over a non-empty script), every configuration was run, main did not
\* abort, the results of the configurations that succeeded were saved, and every
\* failed configuration has a row in the comparison table.
C1_FailureIsolation ==
    (MainEnded /\ Len(QUESTIONS) > 0 /\ skipped # {}) =>
        /\ cfg = Len(Configs) + 1
        /\ pc = "done"
        /\ full_file = << all_results >>
        /\ \A sk \in skipped : \E row \in table : row.config = sk.config

\* C2: a failed run contributes no result.  In every state of the batch, a
\* configuration that failed has no entry in all_results, and every entry has one
\* per-turn record for each question of the script, numbered 1..len(QUESTIONS),
\* with totals that are the sums over all of them.
C2_NoPartialResult ==
    prog = "all" =>
        /\ \A sk \in skipped : sk.config \notin DOMAIN all_results
        /\ \A k \in DOMAIN all_results :
            LET r == all_results[k]
            IN  /\ Len(r.turns) = Len(QUESTIONS)
                /\ \A j \in 1..Len(r.turns) : r.turns[j].turn = j
                /\ r.total_input = SumField(r.turns, "input_tokens")
                /\ r.total_output = SumField(r.turns, "output_tokens")
                /\ r.total_cache_read = SumField(r.turns, "cache_read")
                /\ r.total_cache_write = SumField(r.turns, "cache_write")
                /\ r.total_latency = Round(SumField(r.turns, "latency_s"), 10)

\* A run failed at its second turn, after a complete first turn, while another
\* configuration of the batch has its result
C2_Witness ==
    /\ prog = "all"
    /\ Len(QUESTIONS) = 2
    /\ \E sk \in skipped : sk.at_turn = 2 /\ sk.reason = "KeyError"
    /\ DOMAIN all_results # {}

\* C3: a request carries the cache directive exactly when the run's configuration
\* has caching enabled; a run without caching never sends one.
C3_CacheDirective ==
    request # <<>> => (HasCachePoint(request[1].system) <=> CachingOn)

\* The baseline run of the second model has a request in flight that carries no
\* directive, after the cached run of the first model delivered its result
C3_Witness ==
    /\ prog = "all" /\ pc = "await" /\ cfg = 3
    /\ ~Configs[cfg].use_caching
    /\ ~HasCachePoint(request[1].system)
    /\ Key("Nova Pro", TRUE) \in DOMAIN all_results

\* C4, the states: after k completed turns the history has 2k messages, the user
\* message of prompt j at 2j-1 and an assistant message at 2j, the last one holding
\* the last response's content; the request in flight for turn k+1 is that history
\* followed by the user message of prompt k+1.
C4_Shape ==
    /\ Len(history) = 2 * i
    /\ \A j \in 1..i :
        /\ history[2 * j - 1] = UserMessage(QUESTIONS[j])
        /\ history[2 * j].role = "assistant"
    /\ (i > 0 /\ pc # "crashed") =>
        /\ response # <<>>
        /\ history[2 * i].content = response[1].body.output.message.content
    /\ pc = "await" =>
        /\ request # <<>>
        /\ i < Len(QUESTIONS)
        /\ request[1].messages = Append(history, UserMessage(QUESTIONS[i + 1]))

\* C4, the steps: the history changes only by a new run starting or by one turn
\* appending the user message of the next prompt and then the content of the
\* response just received, verbatim; turns are counted one by one, in script order.
C4_Step ==
    /\ history' # history =>
        \/ history' = <<>> /\ i' = 0
        \/ /\ pc = "await" /\ pc' = "loop"
           /\ i' = i + 1
           /\ response' # <<>>
           /\ history' = history \o
                << UserMessage(QUESTIONS[i + 1]),
                   [role |-> "assistant",
                    content |-> response'[1].body.output.message.content] >>
    /\ i' # i => history' # history

\* C4: within one run the history strictly alternates user and assistant turns in
\* script order, holds the returned content verbatim, and each request is the
\* history of the completed turns followed by the next prompt.
C4_Alternation == []C4_Shape /\ [][C4_Step]_vars

\* The request of the second turn is in flight and carries the first turn's answer
C4_Witness ==
    /\ prog = "cached" /\ pc = "await" /\ i = 1
    /\ Len(request[1].messages) = 3
    /\ request[1].messages[2] =
        [role |-> "assistant", content |-> <<[text |-> "cached answer"]>>]
    /\ request[1].messages[3] = UserMessage(QUESTIONS[2])

\* The four-term cost of the specification, in 1e-10 dollars
FourTermCost(t_input, t_output, t_cache_read, t_cache_write, rates) ==
    t_input * rates.input + t_cache_read * rates.cache_read
    + t_cache_write * rates.cache_write + t_output * rates.output

\* C5: in both caching modes the session cost of a completed run is the four-term
\* sum over its accumulated totals (rounded to 6 decimals where the result is), so
\* cache-read and cache-write tokens that the backend reported are always billed.
C5_FourTermCost ==
    /\ prog = "all" =>
        \A k \in DOMAIN all_results :
            LET r == all_results[k]
            IN  r.cost = Round(FourTermCost(r.total_input, r.total_output,
                                            r.total_cache_read, r.total_cache_write,
                                            RatesFor(r.model)), 10000)
    /\ (prog = "cached" /\ pc \in {"compare", "save", "done"}) =>
        total_cost = FourTermCost(total_input, total_output, total_cache_read,
                                  total_cache_write, RatesFor(MODEL_ID))

\* C6: a run over an empty script ends without an error, and what it reports has
\* zero turns, zero counters and cost 0.
C6_EmptyScript ==
    Len(QUESTIONS) = 0 =>
        /\ pc # "crashed"
        /\ skipped = {}
        /\ (prog = "all" /\ pc \in {"table", "improve", "save", "done"}) =>
            \A c \in DOMAIN Configs :
                /\ Key(Configs[c].name, Configs[c].use_caching) \in DOMAIN all_results
                /\ LET r == all_results[Key(Configs[c].name, Configs[c].use_caching)]
                   IN  /\ r.turns = <<>>
                       /\ r.total_input = 0 /\ r.total_output = 0
                       /\ r.total_cache_read = 0 /\ r.total_cache_write = 0
                       /\ r.total_latency = 0 /\ r.cost = 0
        /\ (prog = "baseline" /\ pc = "done") =>
            /\ baseline_file # <<>>
            /\ baseline_file[1].turns = <<>>
            /\ baseline_file[1].totals.cost_usd = 0
        /\ (prog = "cached" /\ pc = "done") =>
            /\ cached_file # <<>>
            /\ cached_file[1].turns = <<>>
            /\ cached_file[1].totals.cost_usd = 0

\* C7: a comparison is computed only between results of the same model; against a
\* baseline file of another model no deltas are produced.
C7_SameModelOnly ==
    /\ (prog = "cached" /\ baseline_file # <<>> /\ baseline_file[1].model # MODEL_ID) =>
        reports = <<>>
    /\ prog = "all" =>
        \A n \in 1..Len(reports) :
            all_results[Key(reports[n].name, FALSE)].model
                = all_results[Key(reports[n].name, TRUE)].model

\* C8: a baseline whose latency or cost is 0 fails its own comparison only: over a
\* non-empty script no script is ended by the division error.
C8_ZeroBaselineConfined ==
    Len(QUESTIONS) > 0 => ~(pc = "crashed" /\ error = "ZeroDivisionError")

\* C9, for a model that is not in the pricing table: every script prices the run
\* with the same default rates (those the other scripts fall back to) and the saved
\* result says so (rates_are_default = true).  The claim's other half, the flag
\* being false for a model of the table, asks for the same missing field.
C9_DefaultRates ==
    /\ (baseline_file # <<>> /\ baseline_file[1].model \notin DOMAIN PRICING) =>
        LET f == baseline_file[1]
        IN  /\ f.totals.cost_usd =
                Round(FourTermCost(f.totals.input_tokens, f.totals.output_tokens, 0, 0,
                                   RatesFor(f.model)), 10000)
            /\ "rates_are_default" \in DOMAIN f
            /\ f.rates_are_default
    /\ (cached_file # <<>> /\ cached_file[1].model \notin DOMAIN PRICING) =>
        LET f == cached_file[1]
        IN  /\ f.totals.cost_usd =
                Round(FourTermCost(f.totals.input_tokens, f.totals.output_tokens,
                                   f.totals.cache_read_tokens, f.totals.cache_write_tokens,
                                   RatesFor(f.model)), 10000)
            /\ "rates_are_default" \in DOMAIN f
            /\ f.rates_are_default

\* C10: a response without an output message with text content fails the run at
\* that turn: the run does not go on after it, and no assistant message without
\* text content is in the history.
C10_NoTextFails ==
    /\ (response # <<>> /\ ~HasText(response[1].body)) => pc = "crashed"
    /\ \A j \in 1..Len(history) :
        history[j].role = "assistant" =>
            /\ Len(history[j].content) > 0
            /\ "text" \in DOMAIN history[j].content[1]

\* The value the scripts are to take for a usage counter: 0 when it is absent
CounterOrZero(usage, counter) == IF counter \in DOMAIN usage THEN usage[counter] ELSE 0

\* C11: a response whose usage object lacks a counter does not end the run: each
\* absent counter counts as 0 for the turn and each present one is recorded as it
\* came.  (Stated for the counters each script keeps: run_baseline keeps no cache
\* counters; a response without text content is another claim's matter.)  The
\* last response received with a text answer has raised no KeyError and is the
\* one the last per-turn record was made from.
C11_AbsentCountersAreZero ==
    (response # <<>> /\ HasText(response[1].body)) =>
        LET usage == response[1].body.usage
        IN  /\ error # "KeyError"
            /\ i > 0
            /\ turns[i].input_tokens = CounterOrZero(usage, "inputTokens")
            /\ turns[i].output_tokens = CounterOrZero(usage, "outputTokens")
            /\ prog = "cached" =>
                /\ turns[i].cache_read_tokens = CounterOrZero(usage, "cacheReadInputTokens")
                /\ turns[i].cache_write_tokens = CounterOrZero(usage, "cacheWriteInputTokens")
            /\ prog = "all" =>
                /\ turns[i].cache_read = CounterOrZero(usage, "cacheReadInputTokens")
                /\ turns[i].cache_write = CounterOrZero(usage, "cacheWriteInputTokens")

RECURSIVE SumFieldLeft(_, _)
\* The sum of field f over a per-turn list, folded from the first entry on
\* (SumField folds from the last one back)
SumFieldLeft(seq, f) ==
    IF Len(seq) = 0 THEN 0 ELSE seq[1][f] + SumFieldLeft(Tail(seq), f)

\* The per-turn field that holds a cache counter, by script
CacheField(kind) ==
    IF prog = "all" THEN (IF kind = "read" THEN "cache_read" ELSE "cache_write")
    ELSE (IF kind = "read" THEN "cache_read_tokens" ELSE "cache_write_tokens")

\* C12, the states: after k completed turns the per-turn list has k entries
\* numbered 1..k, the last one holding what the last response reported, and every
\* running total is the sum of its field over the entries, folded in either order
\* (so totals are zero and the list empty before the first turn).
C12_Totals ==
    /\ Len(turns) = i
    /\ \A j \in 1..Len(turns) : turns[j].turn = j
    /\ total_input = SumField(turns, "input_tokens")
    /\ total_input = SumFieldLeft(turns, "input_tokens")
    /\ total_output = SumField(turns, "output_tokens")
    /\ total_output = SumFieldLeft(turns, "output_tokens")
    /\ total_latency = SumField(turns, "latency_s")
    /\ IF prog = "baseline"
       THEN total_cache_read = 0 /\ total_cache_write = 0
       ELSE /\ total_cache_read = SumField(turns, CacheField("read"))
            /\ total_cache_read = SumFieldLeft(turns, CacheField("read"))
            /\ total_cache_write = SumField(turns, CacheField("write"))
            /\ total_cache_write = SumFieldLeft(turns, CacheField("write"))
    /\ (i > 0 /\ pc # "crashed") =>
        /\ response # <<>>
        /\ turns[i].latency_s = response[1].elapsed
        /\ turns[i].input_tokens = response[1].body.usage.inputTokens
        /\ turns[i].output_tokens = response[1].body.usage.outputTokens

\* C12, the steps: the per-turn list changes only by a new run starting or by one
\* completed turn appending its entry, and the totals change exactly then, each by
\* the new entry's value.
C12_Step ==
    /\ turns' # turns =>
        \/ turns' = <<>> /\ i' = 0
        \/ /\ i' = i + 1
           /\ Len(turns') = Len(turns) + 1
           /\ SubSeq(turns', 1, Len(turns)) = turns
           /\ total_input' = total_input + turns'[i'].input_tokens
           /\ total_output' = total_output + turns'[i'].output_tokens
           /\ total_latency' = total_latency + turns'[i'].latency_s
           /\ prog # "baseline" =>
                /\ total_cache_read' = total_cache_read + turns'[i'][CacheField("read")]
                /\ total_cache_write' = total_cache_write + turns'[i'][CacheField("write")]
    /\ turns' = turns =>
        UNCHANGED << i, total_input, total_output, total_cache_read, total_cache_write,
                     total_latency >>

\* C12: the accumulation invariant of one run: totals start at zero with an empty
\* per-turn list, after k completed turns the list has the k entries 1..k in the
\* order of the turns and every running total is the sum of its field over them,
\* whatever the order of folding, and totals are updated once per completed turn.
C12_Accumulation == []C12_Totals /\ [][C12_Step]_vars

\* A caching run of the batch has completed two turns, one that reported a cache
\* write and one that reported a cache read
C12_Witness ==
    /\ prog = "all" /\ pc = "loop" /\ i = 2
    /\ Configs[cfg].use_caching
    /\ Len(turns) = 2
    /\ turns[1].cache_write = 3000 /\ turns[2].cache_read = 1
    /\ total_cache_write = 3000 /\ total_cache_read = 1
    /\ total_output = 200

====
